---- MODULE Spec2Model ----
(***************************************************************************)
(* A model of pdqa: the data-quality check functions of singledf.py, the   *)
(* Inspector wrappers around them, the FailSampler of __init__.py and the  *)
(* message formatter of logging/__init__.py.                               *)
(*                                                                         *)
(* A DataFrame is a sequence of rows over the columns "a" and "b"; a row   *)
(* is addressed by its position, which stands for its index label.  A cell *)
(* is a Python object held in an object-dtype column: a str, an int or the *)
(* null marker NaN.  A Python string that the code only formats, joins and *)
(* tests for truth is a TLA+ string, and None, where the code only tests   *)
(* it for truth, is the empty string, which Python's `or`, `if` and        *)
(* filter(None, ...) treat alike.  A string that a regex is matched        *)
(* against is a sequence of characters.                                    *)
(***************************************************************************)
EXTENDS Integers, Sequences, FiniteSets, TLC

VARIABLES df, logger, fail_sampler, inspector, first, last

vars == <<df, logger, fail_sampler, inspector, first, last>>

(***************************************************************************)
(* Bounds of the model.                                                    *)
(***************************************************************************)
MaxRows == 3
MaxInspectRows == 2
MaxCalls == 3
MaxSampleSize == 3
MaxSampleRows == 4

(***************************************************************************)
(* Cells, rows and tables.                                                 *)
(***************************************************************************)
NaN == [t |-> "nan", n |-> 0, s |-> <<>>]
PyInt(k) == [t |-> "int", n |-> k, s |-> <<>>]
PyStr(chars) == [t |-> "str", n |-> 0, s |-> chars]

Columns == <<"a", "b">>
ColumnSet == {Columns[i] : i \in 1..Len(Columns)}

CellsA == {NaN, PyStr(<<"A", "1">>), PyStr(<<"B", "1">>)}
CellsB == {NaN, PyInt(12)}
Rows == [a : CellsA, b : CellsB]
TablesUpTo(m) == UNION {[1..n -> Rows] : n \in 0..m}
Tables == TablesUpTo(MaxRows)

isnull(c) == c.t = "nan"

RECURSIVE Digits(_)
Digits(k) ==
    LET d == <<"0", "1", "2", "3", "4", "5", "6", "7", "8", "9">>[(k % 10) + 1]
    IN IF k < 10 THEN <<d>> ELSE Append(Digits(k \div 10), d)

\* Series.astype(str): str(x) of each cell.
astype_str(c) ==
    CASE c.t = "str" -> c.s
      [] c.t = "int" -> Digits(c.n)
      [] c.t = "nan" -> <<"n", "a", "n">>

\* The code point of a character, for the order of group keys.
Ord(ch) ==
    CASE ch = "1" -> 49 [] ch = "2" -> 50 [] ch = "A" -> 65 [] ch = "B" -> 66
      [] OTHER -> 0

RECURSIVE StrLess(_, _)
StrLess(x, y) ==
    IF y = <<>> THEN FALSE
    ELSE IF x = <<>> THEN TRUE
    ELSE IF Ord(Head(x)) # Ord(Head(y)) THEN Ord(Head(x)) < Ord(Head(y))
    ELSE StrLess(Tail(x), Tail(y))

\* The order pandas sorts the keys of one column's groups in.
KeyLess(x, y) == IF x.t = "int" THEN x.n < y.n ELSE StrLess(x.s, y.s)

(***************************************************************************)
(* Regular expressions, as Series.str.match uses them: re.match, anchored  *)
(* at the start of the string and free at its end.                         *)
(***************************************************************************)
LetterDigit == [text |-> "^A\\d$", toks |-> <<"^", "A", "\\d", "$">>]

Regexes ==
    { LetterDigit,
      [text |-> "A",      toks |-> <<"A">>],
      [text |-> "\\d",    toks |-> <<"\\d">>] }

DigitChars == {"0", "1", "2", "3", "4", "5", "6", "7", "8", "9"}

RECURSIVE MatchFrom(_, _, _, _)
MatchFrom(toks, i, s, j) ==
    IF i > Len(toks) THEN TRUE
    ELSE LET tok == toks[i] IN
         CASE tok = "^" -> j = 1 /\ MatchFrom(toks, i + 1, s, j)
           [] tok = "$" -> j = Len(s) + 1 /\ MatchFrom(toks, i + 1, s, j)
           [] tok = "\\d" -> j <= Len(s) /\ s[j] \in DigitChars
                              /\ MatchFrom(toks, i + 1, s, j + 1)
           [] OTHER -> j <= Len(s) /\ s[j] = tok
                       /\ MatchFrom(toks, i + 1, s, j + 1)

str_match(s, regex) == MatchFrom(regex.toks, 1, s, 1)

(***************************************************************************)
(* logging/__init__.py                                                     *)
(***************************************************************************)
RECURSIVE Join(_, _)
Join(strings, sep) ==
    IF strings = <<>> THEN ""
    ELSE IF Len(strings) = 1 THEN strings[1]
    ELSE strings[1] \o sep \o Join(Tail(strings), sep)

make_log_msg(title, status, detail, extra, sep) ==
    Join(SelectSeq(<<title, status, detail, extra>>, LAMBDA x : x # ""), sep)

\* '{}'.format(cols) of a list of column names, or of None (the empty list).
RECURSIVE ReprItems(_)
ReprItems(cols) ==
    IF Len(cols) = 1 THEN "'" \o cols[1] \o "'"
    ELSE "'" \o cols[1] \o "', " \o ReprItems(Tail(cols))

ListRepr(cols) == IF cols = <<>> THEN "[]" ELSE "[" \o ReprItems(cols) \o "]"
ColsFormat(cols) == IF cols = <<>> THEN "None" ELSE ListRepr(cols)

(***************************************************************************)
(* FailSampler (__init__.py).  A sampler is a record of its fields;        *)
(* sample_size None is has_size = FALSE.  NoSampler is fail_sampler=None.  *)
(***************************************************************************)
NoSampler == [present |-> FALSE, sample_method |-> "", has_size |-> FALSE,
              sample_size |-> 0, save_filename |-> ""]

FailSamplerInit(sample_method, has_size, sample_size) ==
    [present |-> TRUE, sample_method |-> sample_method,
     has_size |-> has_size, sample_size |-> sample_size, save_filename |-> ""]

Samplers ==
    {FailSamplerInit(m, FALSE, 0) : m \in {"random", "head", "tail"}}
    \cup {FailSamplerInit(m, TRUE, k) :
            m \in {"random", "head", "tail"}, k \in 0..MaxSampleSize}

\* df[fails_index]: the labels of the rows the mask selects, in order.
RECURSIVE Masked(_, _)
Masked(mask, i) ==
    IF i > Len(mask) THEN <<>>
    ELSE IF mask[i] THEN <<i>> \o Masked(mask, i + 1)
    ELSE Masked(mask, i + 1)

head(seq, k) == SubSeq(seq, 1, IF k < Len(seq) THEN k ELSE Len(seq))
\* A variant of tail that takes the rows from the front.
tail_from_front(seq, k) == head(seq, k)

tail(seq, k) ==
    SubSeq(seq, (IF k < Len(seq) THEN Len(seq) - k ELSE 0) + 1, Len(seq))

Range(seq) == {seq[i] : i \in 1..Len(seq)}

\* DataFrame.sample(k): every k of the rows, in every order; too few rows
\* raise ValueError.
Arrangements(seq, k) ==
    {p \in [1..k -> Range(seq)] : \A i, j \in 1..k : i # j => p[i] # p[j]}

\* The outcomes of take_sample: the rows returned, or the exception raised.
take_sample(self, mask) ==
    LET fails == Masked(mask, 1) IN
    IF ~ (self.has_size /\ self.sample_size # 0)
    THEN {[exc |-> "", rows |-> fails]}
    ELSE IF self.sample_method = "random"
    THEN IF self.sample_size > Len(fails)
         THEN {[exc |-> "ValueError", rows |-> <<>>]}
         ELSE {[exc |-> "", rows |-> p] : p \in Arrangements(fails, self.sample_size)}
    ELSE IF self.sample_method = "tail"
    THEN {[exc |-> "", rows |-> tail(fails, self.sample_size)]}
    ELSE {[exc |-> "", rows |-> head(fails, self.sample_size)]}

(***************************************************************************)
(* What a call does that its caller can observe, in order: the messages it *)
(* hands to the logger or prints, and its calls of write_sample.  A        *)
(* write_sample event holds the file name, the fail mask it was called     *)
(* with, the rows written and the exception the call raised, if any.       *)
(***************************************************************************)
LogEvent(ch, msg) ==
    [ch |-> ch, msg |-> msg, mask |-> <<>>, rows |-> <<>>, index |-> FALSE,
     of |-> "", raised |-> ""]

WriteEvent(name, mask, rows, index, of, raised) ==
    [ch |-> "write_sample", msg |-> name, mask |-> mask, rows |-> rows,
     index |-> index, of |-> of, raised |-> raised]

\* logger.<level>(msg) if logger else print(msg)
Emit(lg, level, msg) == IF lg THEN LogEvent(level, msg) ELSE LogEvent("print", msg)

\* write_sample: the sample is taken, then written with to_csv, which may
\* fail with OSError.
write_sample(self, mask, save_filename, index, of) ==
    LET name == IF save_filename # "" THEN save_filename
                ELSE IF self.save_filename # "" THEN self.save_filename
                ELSE "FailSample <now>"
    IN UNION {
         IF t.exc # ""
         THEN {[exc |-> t.exc,
                events |-> <<WriteEvent(name, mask, <<>>, index, of, t.exc)>>]}
         ELSE {[exc |-> "", events |-> <<WriteEvent(name, mask, t.rows, index, of, "")>>],
               [exc |-> "OSError",
                events |-> <<WriteEvent(name, mask, <<>>, index, of, "OSError")>>]}
         : t \in take_sample(self, mask)}

\* fail_sampler.write_sample(...) if fail_sampler else None
Sample(fs, mask, save_filename, index, of) ==
    IF fs.present THEN write_sample(fs, mask, save_filename, index, of)
    ELSE {[exc |-> "", events |-> <<>>]}

\* The rest of a failing call: the exception of write_sample propagates,
\* otherwise the function returns `ret`.
Finish(events, w, ret) ==
    IF w.exc # ""
    THEN [ret |-> "raise", exc |-> w.exc, events |-> events \o w.events]
    ELSE [ret |-> ret, exc |-> "", events |-> events \o w.events]

Raise(exc, events) == [ret |-> "raise", exc |-> exc, events |-> events]
Return(ret, events) == [ret |-> ret, exc |-> "", events |-> events]

\* Series.all(), the builtins all() and any(), and the builtin sum() of a
\* boolean Series.
any(ok) == \E i \in 1..Len(ok) : ok[i]

\* A variant of all: Series.any().
any_for_all(ok) == \E i \in 1..Len(ok) : ok[i]

all(ok) == \A i \in 1..Len(ok) : ok[i]

RECURSIVE sum(_)
sum(ok) == IF ok = <<>> THEN 0 ELSE (IF Head(ok) THEN 1 ELSE 0) + sum(Tail(ok))

Not(ok) == [i \in 1..Len(ok) |-> ~ ok[i]]

Violations(n) == " " \o ToString(n) \o " violations"

(***************************************************************************)
(* singledf.py: check_col_format                                           *)
(***************************************************************************)
check_col_format(d, col, regex, df_desc, inspector_title, inspection_detail, lg, fs) ==
    LET warn == IF col \notin ColumnSet
                THEN <<Emit(lg, "warning",
                            "Column " \o col \o " not found in dataframe"
                            \o (IF df_desc # "" THEN " " \o df_desc ELSE ""))>>
                ELSE <<>>
        detail == IF inspection_detail # "" THEN inspection_detail
                  ELSE "Column " \o col \o " vs. pattern " \o regex.text
    IN  IF col \notin ColumnSet THEN {Raise("KeyError", warn)}
        ELSE
        LET ok == [i \in 1..Len(d) |-> str_match(astype_str(d[i][col]), regex)] IN
        IF all(ok)
        THEN {Return("True",
                     warn \o <<Emit(lg, "info",
                         make_log_msg(inspector_title, "PASS", detail, df_desc, "::"))>>)}
        ELSE
        LET nrows == sum(Not(ok))
            fail_detail == detail \o Violations(nrows)
            msg == make_log_msg(inspector_title, "FAIL", fail_detail, df_desc, "::")
            fail_sample_filename ==
                make_log_msg(inspector_title, "FAIL", fail_detail, df_desc, " ")
        IN {Finish(warn \o <<Emit(lg, "error", msg)>>, w, "False")
              : w \in Sample(fs, Not(ok), fail_sample_filename, FALSE, "df")}

(***************************************************************************)
(* singledf.py: check_missing_values.  cols = None is the empty list.      *)
(***************************************************************************)
\* df[fail_cols].isnull().all(axis=1): a variant of fail_index
isnull_all(d, fail_cols) ==
    [i \in 1..Len(d) |-> \A k \in 1..Len(fail_cols) : isnull(d[i][fail_cols[k]])]

\* df[fail_cols].isnull().any(axis=1)
isnull_any(d, fail_cols) ==
    [i \in 1..Len(d) |-> \E k \in 1..Len(fail_cols) : isnull(d[i][fail_cols[k]])]

check_missing_values(d, cols0, df_desc, inspector_title, inspection_detail, lg, fs) ==
    LET cols == IF cols0 # <<>> THEN cols0 ELSE Columns IN
    IF \E k \in 1..Len(cols) : cols[k] \notin ColumnSet THEN {Raise("KeyError", <<>>)}
    ELSE
    LET \* per column: no null in it
        ok == [k \in 1..Len(cols) |-> \A i \in 1..Len(d) : ~ isnull(d[i][cols[k]])]
    IN
    IF all(ok)
    THEN LET detail == IF inspection_detail # "" THEN inspection_detail
                       ELSE "No missing values in " \o ListRepr(cols)
         IN {Return("True",
                    <<Emit(lg, "info",
                        make_log_msg(inspector_title, "PASS", detail, df_desc, "::"))>>)}
    ELSE
    LET fail_cols == SelectSeq(cols, LAMBDA c :
                         \E i \in 1..Len(d) : isnull(d[i][c]))
        detail == IF inspection_detail # "" THEN inspection_detail
                  ELSE "Missing values found in columns " \o ListRepr(fail_cols)
        msg == make_log_msg(inspector_title, "FAIL", detail, df_desc, "::")
        fail_sample_filename ==
            make_log_msg(inspector_title, "FAIL", detail, df_desc, " ")
        \* logger.error(msg) if logger else None
        logged == IF lg THEN <<LogEvent("error", msg)>> ELSE <<>>
        fail_index == isnull_any(d, fail_cols)
    IN {Finish(logged, w, "False")
          : w \in Sample(fs, fail_index, fail_sample_filename, FALSE, "df")}

(***************************************************************************)
(* singledf.py: check_groupby_agg.  df.groupby(by) drops the rows whose    *)
(* key is null and orders the groups by key; gb_agg has one row a group.   *)
(* An aggregation function is a record of what it computes and of its      *)
(* __name__ (a lambda has one, a string such as 'count' has none).  A bool *)
(* is the int it equals in Python (True == 1).                             *)
(***************************************************************************)
IdenticalFn == [f |-> "identical", has_name |-> TRUE, name |-> "<lambda>"]
CountFn == [f |-> "count", has_name |-> FALSE, name |-> ""]

PyTrue == [repr |-> "True", n |-> 1]
PyNum(k) == [repr |-> ToString(k), n |-> k]

\* compare_tolerance: {} leaves numpy's defaults, {'atol': 1} sets atol.
DefaultTolerance == [has_atol |-> FALSE, atol |-> 0]
Atol(k) == [has_atol |-> TRUE, atol |-> k]

Abs(x) == IF x < 0 THEN -x ELSE x

\* numpy.isclose(x, y, rtol=1e-05, atol=1e-08) on ints:
\* |x - y| <= atol + rtol * |y|, scaled by 10^5.
isclose(x, y, tol) ==
    Abs(x - y) * 100000 <= (IF tol.has_atol THEN tol.atol * 100000 ELSE 0) + Abs(y)

KeySet(d, by) == {d[i][by] : i \in {j \in 1..Len(d) : ~ isnull(d[j][by])}}

RECURSIVE SortKeys(_)
SortKeys(keys) ==
    IF keys = {} THEN <<>>
    ELSE LET m == CHOOSE x \in keys : \A y \in keys \ {x} : KeyLess(x, y)
         IN <<m>> \o SortKeys(keys \ {m})

GroupKeys(d, by) == SortKeys(KeySet(d, by))
GroupRows(d, by, key) == {i \in 1..Len(d) : d[i][by] = key}

\* series.nunique(dropna=False) <= 1, and series.count()
agg(d, rows, check_col, agg_func) ==
    IF agg_func.f = "identical"
    THEN IF Cardinality({d[i][check_col] : i \in rows}) <= 1 THEN 1 ELSE 0
    ELSE Cardinality({i \in rows : ~ isnull(d[i][check_col])})

check_groupby_agg(d, by, check_col, agg_func, desired_agg_val, almost_equal, agg_func_name0, compare_tolerance, df_desc, inspector_title, inspection_detail, lg, fs) ==
    LET title == IF inspector_title # "" THEN inspector_title
                 ELSE "Group Aggregate Check"
        agg_func_name == IF agg_func_name0 = "infer" /\ agg_func.has_name
                         THEN agg_func.name ELSE agg_func_name0
        detail == IF inspection_detail # "" THEN inspection_detail
                  ELSE check_col \o " grouped by " \o by \o " aggregated by "
                       \o agg_func_name \o " compared with " \o desired_agg_val.repr
    IN
    IF by \notin ColumnSet \/ check_col \notin ColumnSet THEN {Raise("KeyError", <<>>)}
    ELSE
    LET keys == GroupKeys(d, by)
        gb_agg == [g \in 1..Len(keys) |->
                     agg(d, GroupRows(d, by, keys[g]), check_col, agg_func)]
        ok == [g \in 1..Len(keys) |->
                 IF almost_equal
                 THEN isclose(gb_agg[g], desired_agg_val.n, compare_tolerance)
                 ELSE gb_agg[g] = desired_agg_val.n]
    IN
    IF all(ok)
    THEN {Return("True",
                 <<Emit(lg, "info", make_log_msg(title, "PASS", detail, df_desc, "::"))>>)}
    ELSE
    LET n_not_ok == sum(Not(ok))
        fail_detail == detail \o Violations(n_not_ok)
        msg == make_log_msg(title, "FAIL", fail_detail, df_desc, "::")
        fail_sample_filename == make_log_msg(title, "FAIL", fail_detail, df_desc, " ")
    IN {Finish(<<Emit(lg, "error", msg)>>, w, "False")
          : w \in Sample(fs, Not(ok), fail_sample_filename, TRUE, "gb_agg")}

(***************************************************************************)
(* singledf.py: check_groupby_identical.  The result of check_groupby_agg  *)
(* is not returned: the function ends without a return statement.          *)
(***************************************************************************)
check_groupby_identical(d, by, check_col, df_desc, inspector_title, inspection_detail, lg, fs) ==
    LET detail == IF inspection_detail # "" THEN inspection_detail
                  ELSE check_col \o " grouped by " \o by
                       \o " is identical within group?"
    IN { IF r.ret = "raise" THEN r ELSE Return("None", r.events)
         : r \in check_groupby_agg(d, by, check_col, IdenticalFn, PyTrue, FALSE,
                                   "infer", DefaultTolerance, df_desc,
                                   inspector_title, detail, lg, fs) }

(***************************************************************************)
(* singledf.py: check_no_duplicate.  cols = None (the empty list here)     *)
(* compares whole rows; nulls compare equal in DataFrame.duplicated.  The  *)
(* failing branch ends without a return statement.                         *)
(***************************************************************************)
check_no_duplicate(d, cols, df_desc, inspector_title, inspection_detail, lg, fs) ==
    LET subset == IF cols = <<>> THEN Columns ELSE cols IN
    IF \E k \in 1..Len(subset) : subset[k] \notin ColumnSet THEN {Raise("KeyError", <<>>)}
    ELSE
    LET same(i, j) == \A k \in 1..Len(subset) : d[i][subset[k]] = d[j][subset[k]]
        \* df.duplicated(subset=cols, keep=False)
        dup == [i \in 1..Len(d) |-> \E j \in 1..Len(d) : j # i /\ same(i, j)]
    IN
    IF ~ any(dup)
    THEN LET detail == "No duplicate in combinations of " \o ColsFormat(cols)
         IN {Return("True",
                    <<Emit(lg, "info",
                        make_log_msg(inspector_title, "PASS", detail, df_desc, "::"))>>)}
    ELSE
    LET n_not_ok == sum(dup)
        detail == "Duplicates found in cols " \o ColsFormat(cols) \o Violations(n_not_ok)
        msg == make_log_msg(inspector_title, "FAIL", detail, df_desc, "::")
        fail_sample_filename ==
            make_log_msg(inspector_title, "FAIL", detail, df_desc, " ")
    IN {Finish(<<Emit(lg, "error", msg)>>, w, "None")
          : w \in Sample(fs, dup, fail_sample_filename, FALSE, "df")}

(***************************************************************************)
(* singledf.py: the Inspector classes.  An Inspector is the record of its  *)
(* attributes; __init__ of DataFrameInspector sets title, detail, logger   *)
(* and fail_sampler.                                                       *)
(***************************************************************************)
ColumnFormatInspector(col, regex, detail, lg, fs) ==
    [cls |-> "ColumnFormatInspector", title |-> "Column Format Check",
     detail |-> IF detail # "" THEN detail
                ELSE "Column " \o col \o " vs. pattern " \o regex.text,
     logger |-> lg, fail_sampler |-> fs, check_col |-> col, regex |-> regex]

GroupAggregateInspector(by, check_col, agg_func, desired_agg_val, almost_equal, agg_func_name0, compare_tolerance, detail, lg, fs) ==
    LET agg_func_name == IF agg_func.has_name THEN agg_func.name ELSE agg_func_name0 IN
    [cls |-> "GroupAggregateInspector", title |-> "Group Aggregate Check",
     detail |-> IF detail # "" THEN detail
                ELSE check_col \o " grouped by " \o by \o " aggregated by "
                     \o agg_func_name \o " compared with " \o desired_agg_val.repr,
     logger |-> lg, fail_sampler |-> fs, by |-> by, check_col |-> check_col,
     agg_func |-> agg_func, desired_agg_val |-> desired_agg_val,
     almost_equal |-> almost_equal, agg_func_name |-> agg_func_name,
     compare_tolerance |-> compare_tolerance]

IdenticalWithinGroupInspector(by, check_col, detail, lg, fs) ==
    [cls |-> "IdenticalWithinGroupInspector", title |-> "Identical Within Group Check",
     detail |-> IF detail # "" THEN detail ELSE check_col \o " grouped by " \o by,
     logger |-> lg, fail_sampler |-> fs, by |-> by, check_col |-> check_col]

NoDuplicateInspector(cols, detail, lg, fs) ==
    [cls |-> "NoDuplicateInspector", title |-> "No Duplicate Check",
     detail |-> detail, logger |-> lg, fail_sampler |-> fs, cols |-> cols]

MissingValuesInspector(cols, detail, lg, fs) ==
    [cls |-> "MissingValuesInspector", title |-> "Missing Values Check",
     detail |-> detail, logger |-> lg, fail_sampler |-> fs, cols |-> cols]

(***************************************************************************)
(* A call, as its caller sees it: the function that ran, the table and the *)
(* arguments it ran on, and what it did (its events, and the value it      *)
(* returned or the exception it raised).                                   *)
(***************************************************************************)
NoCall == [fn |-> "", n |-> 0, d |-> <<>>, args |-> [df_desc |-> ""],
           out |-> Return("None", <<>>)]

Call(fn, d, args, outs) ==
    {[fn |-> fn, n |-> last.n + 1, d |-> d, args |-> args, out |-> o] : o \in outs}

CallColFormat(d, col, regex, df_desc, title, detail, lg, fs) ==
    Call("check_col_format", d,
         [col |-> col, regex |-> regex, df_desc |-> df_desc, inspector_title |-> title,
          inspection_detail |-> detail, logger |-> lg, fail_sampler |-> fs],
         check_col_format(d, col, regex, df_desc, title, detail, lg, fs))

CallMissingValues(d, cols, df_desc, title, detail, lg, fs) ==
    Call("check_missing_values", d,
         [cols |-> cols, df_desc |-> df_desc, inspector_title |-> title,
          inspection_detail |-> detail, logger |-> lg, fail_sampler |-> fs],
         check_missing_values(d, cols, df_desc, title, detail, lg, fs))

CallGroupbyAgg(d, by, check_col, agg_func, desired_agg_val, almost_equal, agg_func_name, compare_tolerance, df_desc, title, detail, lg, fs) ==
    Call("check_groupby_agg", d,
         [by |-> by, check_col |-> check_col, agg_func |-> agg_func,
          desired_agg_val |-> desired_agg_val, almost_equal |-> almost_equal,
          agg_func_name |-> agg_func_name, compare_tolerance |-> compare_tolerance,
          df_desc |-> df_desc, inspector_title |-> title,
          inspection_detail |-> detail, logger |-> lg, fail_sampler |-> fs],
         check_groupby_agg(d, by, check_col, agg_func, desired_agg_val, almost_equal,
                           agg_func_name, compare_tolerance, df_desc, title, detail,
                           lg, fs))

CallGroupbyIdentical(d, by, check_col, df_desc, title, detail, lg, fs) ==
    Call("check_groupby_identical", d,
         [by |-> by, check_col |-> check_col, df_desc |-> df_desc,
          inspector_title |-> title, inspection_detail |-> detail,
          logger |-> lg, fail_sampler |-> fs],
         check_groupby_identical(d, by, check_col, df_desc, title, detail, lg, fs))

CallNoDuplicate(d, cols, df_desc, title, detail, lg, fs) ==
    Call("check_no_duplicate", d,
         [cols |-> cols, df_desc |-> df_desc, inspector_title |-> title,
          inspection_detail |-> detail, logger |-> lg, fail_sampler |-> fs],
         check_no_duplicate(d, cols, df_desc, title, detail, lg, fs))

\* <Inspector>.inspect(df, df_desc): the check function is called with the
\* attributes of self, and its result returned.
inspect(self, d, df_desc) ==
    CASE self.cls = "ColumnFormatInspector" ->
           CallColFormat(d, self.check_col, self.regex, df_desc, self.title,
                         self.detail, self.logger, self.fail_sampler)
      [] self.cls = "GroupAggregateInspector" ->
           CallGroupbyAgg(d, self.by, self.check_col, self.agg_func,
                          self.desired_agg_val, self.almost_equal, self.agg_func_name,
                          self.compare_tolerance, df_desc, self.title, self.detail,
                          self.logger, self.fail_sampler)
      [] self.cls = "IdenticalWithinGroupInspector" ->
           CallGroupbyIdentical(d, self.by, self.check_col, df_desc, self.title,
                                self.detail, self.logger, self.fail_sampler)
      [] self.cls = "NoDuplicateInspector" ->
           CallNoDuplicate(d, self.cols, df_desc, self.title, self.detail,
                           self.logger, self.fail_sampler)
      [] self.cls = "MissingValuesInspector" ->
           CallMissingValues(d, self.cols, df_desc, self.title, self.detail,
                             self.logger, self.fail_sampler)

\* The Inspector after inspect: no inspect method assigns an attribute of
\* self, and the check functions rebind their own inspection_detail only.
\* The variant keeps the FAIL message of the call as the detail.
ErrorMessages(call) == SelectSeq(call.out.events, LAMBDA e : e.ch = "error")

InspectorKeepingMessage(self, call) ==
    IF ErrorMessages(call) # <<>>
    THEN [self EXCEPT !.detail = ErrorMessages(call)[1].msg]
    ELSE self

InspectorAfter(self, call) == self

(***************************************************************************)
(* The inputs.                                                             *)
(***************************************************************************)
Descs == {"", "sales"}
Details == {"", "my detail"}
ColNames == {"a", "b", "c"}
ColLists == {<<>>, <<"a">>, <<"b">>, <<"a", "b">>, <<"c">>}
GroupArgs == {<<"a", "b">>, <<"b", "a">>, <<"c", "a">>, <<"a", "c">>}
AggArgs ==
    { [agg_func |-> IdenticalFn, desired_agg_val |-> PyTrue, almost_equal |-> FALSE,
       compare_tolerance |-> DefaultTolerance],
      [agg_func |-> CountFn, desired_agg_val |-> PyNum(1), almost_equal |-> FALSE,
       compare_tolerance |-> DefaultTolerance],
      [agg_func |-> CountFn, desired_agg_val |-> PyNum(1), almost_equal |-> TRUE,
       compare_tolerance |-> Atol(1)] }
CheckSamplers ==
    {NoSampler, FailSamplerInit("head", TRUE, 1), FailSamplerInit("tail", FALSE, 0),
     FailSamplerInit("random", TRUE, 2)}

NoInspector == [cls |-> ""]

(***************************************************************************)
(* Spec: a session either calls one check function on the table, or        *)
(* constructs an Inspector and has it inspect the table and the table's    *)
(* first row, up to MaxCalls times in any order.  `last` is the latest     *)
(* call and `first` the first call of the Inspector on the whole table.    *)
(* The check functions keep no state between calls.                        *)
(***************************************************************************)
Inspectors(lg, fs) ==
    {ColumnFormatInspector(col, LetterDigit, detail, lg, fs) :
        col \in {"a", "c"}, detail \in Details}
    \cup {GroupAggregateInspector("a", "b", CountFn, PyNum(1), FALSE, "infer",
                                  DefaultTolerance, detail, lg, fs) :
            detail \in Details}
    \cup {IdenticalWithinGroupInspector("a", "b", detail, lg, fs) : detail \in Details}
    \cup {NoDuplicateInspector(<<"a">>, detail, lg, fs) : detail \in Details}
    \cup {MissingValuesInspector(<<>>, detail, lg, fs) : detail \in Details}

InitCheck ==
    /\ df \in Tables
    /\ logger \in BOOLEAN
    /\ fail_sampler \in CheckSamplers
    /\ inspector = NoInspector

InitInspect ==
    /\ df \in TablesUpTo(MaxInspectRows)
    /\ logger \in BOOLEAN
    /\ fail_sampler \in {NoSampler, FailSamplerInit("tail", FALSE, 0)}
    /\ inspector \in Inspectors(logger, fail_sampler)

Init ==
    /\ InitCheck \/ InitInspect
    /\ first = NoCall
    /\ last = NoCall

CheckColFormat ==
    /\ inspector = NoInspector /\ last = NoCall
    /\ \E col \in ColNames, regex \in Regexes, df_desc \in Descs, detail \in Details :
         last' \in CallColFormat(df, col, regex, df_desc, "check_col_format", detail,
                                 logger, fail_sampler)
    /\ UNCHANGED <<df, logger, fail_sampler, inspector, first>>

CheckMissingValues ==
    /\ inspector = NoInspector /\ last = NoCall
    /\ \E cols \in ColLists, df_desc \in Descs, detail \in Details :
         last' \in CallMissingValues(df, cols, df_desc, "check_missing_values", detail,
                                     logger, fail_sampler)
    /\ UNCHANGED <<df, logger, fail_sampler, inspector, first>>

CheckGroupbyAgg ==
    /\ inspector = NoInspector /\ last = NoCall
    /\ \E g \in GroupArgs, a \in AggArgs, df_desc \in Descs, detail \in Details :
         last' \in CallGroupbyAgg(df, g[1], g[2], a.agg_func, a.desired_agg_val,
                                  a.almost_equal, "infer", a.compare_tolerance,
                                  df_desc, "", detail, logger, fail_sampler)
    /\ UNCHANGED <<df, logger, fail_sampler, inspector, first>>

CheckGroupbyIdentical ==
    /\ inspector = NoInspector /\ last = NoCall
    /\ \E g \in GroupArgs, df_desc \in Descs, detail \in Details :
         last' \in CallGroupbyIdentical(df, g[1], g[2], df_desc, "check_group_identical",
                                        detail, logger, fail_sampler)
    /\ UNCHANGED <<df, logger, fail_sampler, inspector, first>>

CheckNoDuplicate ==
    /\ inspector = NoInspector /\ last = NoCall
    /\ \E cols \in ColLists, df_desc \in Descs, detail \in Details :
         last' \in CallNoDuplicate(df, cols, df_desc, "check_no_duplicate", detail,
                                   logger, fail_sampler)
    /\ UNCHANGED <<df, logger, fail_sampler, inspector, first>>

Inspect ==
    /\ inspector # NoInspector /\ last.n < MaxCalls
    /\ \E df_desc \in Descs, d \in {df, head(df, 1)} :
         \E call \in inspect(inspector, d, df_desc) :
           /\ last' = call
           /\ first' = IF first = NoCall /\ d = df THEN call ELSE first
           /\ inspector' = InspectorAfter(inspector, call)
    /\ UNCHANGED <<df, logger, fail_sampler>>

Next ==
    \/ CheckColFormat
    \/ CheckMissingValues
    \/ CheckGroupbyAgg
    \/ CheckGroupbyIdentical
    \/ CheckNoDuplicate
    \/ Inspect

Spec == Init /\ [][Next]_vars

(***************************************************************************)
(* SpecSampler: a FailSampler takes, or writes, a sample of a table under  *)
(* a fail mask.                                                            *)
(***************************************************************************)
SampleRow == [a |-> PyStr(<<"A", "1">>), b |-> PyInt(12)]

InitSampler ==
    /\ df \in {[i \in 1..n |-> SampleRow] : n \in 0..MaxSampleRows}
    /\ logger = FALSE
    /\ fail_sampler \in Samplers
    /\ inspector = NoInspector
    /\ first = NoCall
    /\ last = NoCall

TakeSample ==
    /\ last = NoCall
    /\ \E fails_index \in [1..Len(df) -> BOOLEAN] :
         last' \in Call("take_sample", df,
                        [self |-> fail_sampler, fails_index |-> fails_index],
                        take_sample(fail_sampler, fails_index))
    /\ UNCHANGED <<df, logger, fail_sampler, inspector, first>>

WriteSample ==
    /\ last = NoCall
    /\ \E fails_index \in [1..Len(df) -> BOOLEAN], save_filename \in {"", "fails.csv"} :
         last' \in Call("write_sample", df,
                        [self |-> fail_sampler, fails_index |-> fails_index,
                         save_filename |-> save_filename],
                        write_sample(fail_sampler, fails_index, save_filename,
                                     TRUE, "df"))
    /\ UNCHANGED <<df, logger, fail_sampler, inspector, first>>

NextSampler == TakeSample \/ WriteSample

SpecSampler == InitSampler /\ [][NextSampler]_vars

(***************************************************************************)
(* What the claims speak of, read off the latest call.                     *)
(***************************************************************************)
CheckFunctions ==
    {"check_col_format", "check_missing_values", "check_groupby_agg",
     "check_groupby_identical", "check_no_duplicate"}

Returned(call) == call.out.ret # "raise"
Messages(call) == SelectSeq(call.out.events, LAMBDA e : e.ch # "write_sample")
Writes(call) == SelectSeq(call.out.events, LAMBDA e : e.ch = "write_sample")
MaskedRows(mask) == {i \in 1..Len(mask) : mask[i]}

\* The detail a check reports when its caller gave none.
DetailOr(call, default) ==
    IF call.args.inspection_detail # "" THEN call.args.inspection_detail ELSE default

FailText(call, detail, n, sep) ==
    make_log_msg(call.args.inspector_title, "FAIL",
                 detail \o " " \o ToString(n) \o " violations", call.args.df_desc, sep)

(***************************************************************************)
(* C1: a format check on an existing column returns True exactly when the  *)
(* str() of every row's value matches the regex; when it returns and some  *)
(* row does not match it returns False; and whenever some row does not     *)
(* match, the FAIL message it emits carries the number of such rows.       *)
(***************************************************************************)
C1_NonMatching ==
    {i \in 1..Len(last.d) :
        ~ str_match(astype_str(last.d[i][last.args.col]), last.args.regex)}

C1_FormatMatch ==
    (last.fn = "check_col_format" /\ last.args.col \in ColumnSet) =>
      /\ last.out.ret = "True" <=> C1_NonMatching = {}
      /\ (Returned(last) /\ C1_NonMatching # {}) => last.out.ret = "False"
      /\ C1_NonMatching # {} =>
           /\ Len(Messages(last)) = 1
           /\ Messages(last)[1].msg =
                FailText(last,
                         DetailOr(last, "Column " \o last.args.col \o " vs. pattern "
                                        \o last.args.regex.text),
                         Cardinality(C1_NonMatching), "::")

C1_Witness ==
    /\ last.fn = "check_col_format"
    /\ last.out.ret = "False"
    /\ Len(last.d) = 3
    /\ Cardinality(C1_NonMatching) = 1
    /\ last.args.regex.text = "^A\\d$"

(***************************************************************************)
(* C2: check_no_duplicate on existing columns, when it returns, returns    *)
(* True exactly when no combination of the columns' values is on two or    *)
(* more rows, and False otherwise; a failing call reports, and masks for   *)
(* the sampler, every row of every duplicated combination.                 *)
(***************************************************************************)
C2_Subset ==
    IF last.args.cols = <<>> THEN ColumnSet
    ELSE {last.args.cols[k] : k \in 1..Len(last.args.cols)}

C2_DupRows ==
    {i \in 1..Len(last.d) :
        \E j \in 1..Len(last.d) :
            j # i /\ \A c \in C2_Subset : last.d[i][c] = last.d[j][c]}

C2_Reported ==
    (last.fn = "check_no_duplicate" /\ C2_Subset \subseteq ColumnSet
       /\ C2_DupRows # {}) =>
      /\ Len(Messages(last)) = 1
      /\ Messages(last)[1].msg =
           FailText(last, "Duplicates found in cols " \o ColsFormat(last.args.cols),
                    Cardinality(C2_DupRows), "::")
      /\ \A k \in 1..Len(Writes(last)) :
           MaskedRows(Writes(last)[k].mask) = C2_DupRows

C2_NoDuplicate ==
    /\ C2_Reported
    /\ (last.fn = "check_no_duplicate" /\ C2_Subset \subseteq ColumnSet
          /\ Returned(last)) =>
         /\ last.out.ret = "True" <=> C2_DupRows = {}
         /\ last.out.ret = "False" <=> C2_DupRows # {}

(***************************************************************************)
(* C3: check_groupby_identical on existing columns, when it returns,       *)
(* returns True when every group of `by` holds at most one distinct value  *)
(* of check_col, a null counting as a value, and False when some group     *)
(* holds more; the count it reports is the number of such groups.          *)
(***************************************************************************)
C3_MixedGroups ==
    {key \in KeySet(last.d, last.args.by) :
        Cardinality({last.d[i][last.args.check_col] :
                        i \in {j \in 1..Len(last.d) :
                                 last.d[j][last.args.by] = key}}) > 1}

C3_Reported ==
    (last.fn = "check_groupby_identical" /\ last.args.by \in ColumnSet
       /\ last.args.check_col \in ColumnSet /\ C3_MixedGroups # {}) =>
      /\ Len(Messages(last)) = 1
      /\ Messages(last)[1].msg =
           FailText(last,
                    DetailOr(last, last.args.check_col \o " grouped by "
                                   \o last.args.by \o " is identical within group?"),
                    Cardinality(C3_MixedGroups), "::")

C3_GroupIdentical ==
    /\ C3_Reported
    /\ (last.fn = "check_groupby_identical" /\ last.args.by \in ColumnSet
          /\ last.args.check_col \in ColumnSet /\ Returned(last)) =>
         /\ C3_MixedGroups = {} => last.out.ret = "True"
         /\ C3_MixedGroups # {} => last.out.ret = "False"

C5_Min(x, y) == IF x < y THEN x ELSE y

C5_InOrder(rows) == \A i, j \in 1..Len(rows) : i < j => rows[i] < rows[j]

C5_TakeSample ==
    (last.fn = "take_sample" /\ last.out.exc = "") =>
      LET self == last.args.self
          masked == MaskedRows(last.args.fails_index)
          rows == last.out.rows
          got == {rows[i] : i \in 1..Len(rows)}
          n == C5_Min(self.sample_size, Cardinality(masked))
      IN /\ got \subseteq masked
         /\ (~ self.has_size \/ self.sample_size = 0) =>
              got = masked /\ C5_InOrder(rows)
         /\ (self.has_size /\ self.sample_size > 0 /\ self.sample_method = "head") =>
              /\ Len(rows) = n /\ C5_InOrder(rows)
              /\ \A r \in got, m \in masked \ got : r < m
         /\ (self.has_size /\ self.sample_size > 0 /\ self.sample_method = "tail") =>
              /\ Len(rows) = n /\ C5_InOrder(rows)
              /\ \A r \in got, m \in masked \ got : m < r

C5_Witness ==
    /\ last.fn = "take_sample"
    /\ last.args.self.sample_method = "tail"
    /\ last.args.self.has_size /\ last.args.self.sample_size = 2
    /\ Cardinality(MaskedRows(last.args.fails_index)) = 3
    /\ Len(last.args.fails_index) = 4
    /\ Len(last.out.rows) = 2

(***************************************************************************)
(* C6: check_missing_values on existing columns returns True exactly when  *)
(* no specified column (every column when cols is None) holds a null; when *)
(* it returns and some column holds one it returns False; and the fail     *)
(* mask it hands to the sampler selects exactly the rows with a null in    *)
(* any of the specified columns.                                           *)
(***************************************************************************)
C6_Cols ==
    IF last.args.cols = <<>> THEN ColumnSet
    ELSE {last.args.cols[k] : k \in 1..Len(last.args.cols)}

C6_NullRows == {i \in 1..Len(last.d) : \E c \in C6_Cols : isnull(last.d[i][c])}

C6_MissingValues ==
    (last.fn = "check_missing_values" /\ C6_Cols \subseteq ColumnSet) =>
      /\ last.out.ret = "True" <=> C6_NullRows = {}
      /\ Returned(last) => (last.out.ret = "False" <=> C6_NullRows # {})
      /\ (C6_NullRows # {} /\ last.args.fail_sampler.present) => Len(Writes(last)) = 1
      /\ \A k \in 1..Len(Writes(last)) :
           /\ Len(Writes(last)[k].mask) = Len(last.d)
           /\ MaskedRows(Writes(last)[k].mask) = C6_NullRows

C6_Witness ==
    /\ last.fn = "check_missing_values"
    /\ last.args.cols = <<"a", "b">>
    /\ last.out.ret = "False"
    /\ Len(last.d) = 3
    /\ Cardinality(C6_NullRows) = 2
    /\ \A i \in 1..Len(last.d) : ~ isnull(last.d[i]["a"])
    /\ Len(Writes(last)) = 1

(***************************************************************************)
(* C7: a check function called without a logger prints every message it    *)
(* has: each call that reaches its verdict prints the PASS or the FAIL     *)
(* message.                                                                *)
(***************************************************************************)
C7_Verdict == last.fn \in CheckFunctions /\ last.out.exc # "KeyError"

C7_PrintFallback ==
    (C7_Verdict /\ ~ last.args.logger) =>
      \E k \in 1..Len(Messages(last)) : Messages(last)[k].ch = "print"

\* The same, of the four check functions other than check_missing_values.
C7_PrintFallbackElsewhere ==
    (C7_Verdict /\ ~ last.args.logger /\ last.fn # "check_missing_values") =>
      \E k \in 1..Len(Messages(last)) : Messages(last)[k].ch = "print"

(***************************************************************************)
(* C8: a check function calls write_sample only in a call that does not    *)
(* pass, and only after it has emitted its FAIL message.                   *)
(***************************************************************************)
C8_SampleAfterFail ==
    last.fn \in CheckFunctions =>
      \A i \in 1..Len(last.out.events) :
         last.out.events[i].ch = "write_sample" =>
           /\ last.out.ret # "True"
           /\ \E j \in 1..(i - 1) : last.out.events[j].ch \in {"error", "print"}

\* The same, of the calls that are given a logger.
C8_SampleAfterFailLogged ==
    (last.fn \in CheckFunctions /\ last.args.logger) =>
      \A i \in 1..Len(last.out.events) :
         last.out.events[i].ch = "write_sample" =>
           /\ last.out.ret # "True"
           /\ \E j \in 1..(i - 1) : last.out.events[j].ch = "error"

(***************************************************************************)
(* C9: a failing call of a check function that was given a logger and a    *)
(* detail emits one message, at error level: title, 'FAIL', the detail     *)
(* with the violation count appended, and the table description, joined by *)
(* '::'; the file name it gives the sampler is the same joined by ' '.     *)
(***************************************************************************)
C9_Title ==
    IF last.fn = "check_groupby_agg" /\ last.args.inspector_title = ""
    THEN "Group Aggregate Check" ELSE last.args.inspector_title

C9_Failing ==
    \E k \in 1..Len(last.out.events) :
        last.out.events[k].ch \in {"error", "write_sample"}

C9_Text(n, sep) ==
    make_log_msg(C9_Title, "FAIL",
                 last.args.inspection_detail \o " " \o ToString(n) \o " violations",
                 last.args.df_desc, sep)

C9_FailMessageOf(fns) ==
    (last.fn \in fns /\ last.args.logger /\ last.args.inspection_detail # ""
       /\ C9_Failing) =>
      \E n \in 1..Len(last.d) :
         /\ Len(Messages(last)) = 1
         /\ Messages(last)[1].ch = "error"
         /\ Messages(last)[1].msg = C9_Text(n, "::")
         /\ \A k \in 1..Len(Writes(last)) : Writes(last)[k].msg = C9_Text(n, " ")

C9_FailMessage == C9_FailMessageOf(CheckFunctions)

\* The same, of the three check functions that keep the caller's detail and
\* append the count to it.
C9_FailMessageElsewhere ==
    C9_FailMessageOf({"check_col_format", "check_groupby_agg", "check_groupby_identical"})

(***************************************************************************)
(* C10: check_col_format on a table without the column `col` emits one     *)
(* warning and then completes with a PASS or a FAIL verdict.               *)
(***************************************************************************)
C10_MissingColumn ==
    (last.fn = "check_col_format" /\ last.args.col \notin ColumnSet) =>
      /\ Len(SelectSeq(last.out.events,
                       LAMBDA e : e.ch = (IF last.args.logger THEN "warning"
                                          ELSE "print"))) = 1
      /\ last.out.ret \in {"True", "False"}
====
